---- MODULE Spec2Model ----
(***************************************************************************)
(* Model of the two chat agents of the repository:                         *)
(*   - the tool agent   (cmd/examples/example10/step4/main.go)             *)
(*   - the budget agent (src/unnamed/part_001, example10 step2)            *)
(* together with the streaming client they consume through a channel.      *)
(*                                                                         *)
(* A text is a sequence of symbols; a symbol is a one-character string or  *)
(* one of the two indivisible markers "<think>" and "</think>".            *)
(***************************************************************************)
EXTENDS Integers, Sequences, FiniteSets, TLC

VARIABLES
    agent,            \* which program runs: "tool" or "budget"
    pc,               \* position of Run: "top", "stream", "done", "fatal", "panic"
    conversation,     \* []client.D, the history
    reasonContent,    \* []string, reasoning fragments of the current model call
    chunks,           \* []string, visible content fragments of the current call
    reasonThinking,   \* flag: explicit reasoning channel
    contentThinking,  \* flag: inside <think> ... </think>
    inToolCall,       \* tool agent: a tool response is pending for the model
    lastToolCall,     \* tool agent: remembered batch for the duplicate check
    contextWindow,    \* window limit (budget agent: var, set from the environment)
    files,            \* the file system the tools act on: path -> lines
    ch,               \* events in the channel, not yet received
    chOpen,           \* the client has not closed the channel yet
    sent,             \* number of events the client has sent so far
    calls,            \* number of model calls issued so far
    endReason,        \* history: why the client closed the channel
    last,             \* history: tag of the step that was taken last
    called,           \* history: tool calls invoked by the last step
    prevBatch,        \* history: the tool-call batch received most recently
    recvd,            \* history: events received in the current model call
    answers           \* history: recvd of every call since the last user input

vars == <<agent, pc, conversation, reasonContent, chunks, reasonThinking,
          contentThinking, inToolCall, lastToolCall, contextWindow, files,
          ch, chOpen, sent, calls, endReason, last, called, prevBatch,
          recvd, answers>>

-----------------------------------------------------------------------------
(* Bounds of the model *)

MaxCalls == 3       \* model calls per behaviour
MaxEvents == 4      \* events the endpoint sends in one behaviour
MaxWindow == 4      \* largest window limit drawn for the budget agent
HugeTokens == 200000 \* tokens of the long line the symbol "huge" stands for

(* Program constants *)

ChanCap == 100      \* make(chan ..., 100)

-----------------------------------------------------------------------------
(* Texts *)

RECURSIVE Join(_, _)
Join(elems, sep) ==
    IF elems = <<>> THEN <<>>
    ELSE IF Len(elems) = 1 THEN elems[1]
    ELSE elems[1] \o sep \o Join(Tail(elems), sep)

RECURSIVE TrimLeft(_, _)
TrimLeft(s, cutset) ==
    IF s # <<>> /\ s[1] \in cutset THEN TrimLeft(Tail(s), cutset) ELSE s

\* strings.TrimSpace on the argument values the model draws.
TrimSpace(s) == IF s = " replace " THEN "replace" ELSE s

\* tiktoken.TokenCount: one token per symbol, no token for the empty text;
\* the symbol "huge" stands for a long line of text.
Weight(sym) == IF sym = "huge" THEN HugeTokens ELSE 1

RECURSIVE TokenCount(_)
TokenCount(s) == IF s = <<>> THEN 0 ELSE Weight(s[1]) + TokenCount(Tail(s))

RECURSIVE SumTokens(_)
SumTokens(msgs) ==
    IF msgs = <<>> THEN 0
    ELSE TokenCount(msgs[1].content) + SumTokens(Tail(msgs))

systemPrompt == <<"s", "y">>

Message(role, content) == [role |-> role, name |-> "", content |-> content]

SystemMessage == Message("system", systemPrompt)

-----------------------------------------------------------------------------
(* Tool calls, their arguments and the structured tool responses *)

Str(v) == [t |-> "string", v |-> v, n |-> 0]
Num(n) == [t |-> "float64", v |-> "", n |-> n]

NoArgs == [k \in {} |-> Str("")]

ToolCall(name, args) == [name |-> name, args |-> args]

EmptyD == [role |-> "", name |-> "", content |-> <<>>]

\* json.Marshal of struct{Status; Data map[string]any}
Marshal(status, key, value) == <<"status", status, "data", key>> \o value

DupError == "data already provided in a previous response, please review the conversation history"

toolSuccessResponse(toolName, key, value) ==
    [role |-> "tool", name |-> toolName, content |-> Marshal("SUCCESS", key, value)]

toolErrorResponse_Unstructured(toolName, err) ==
    [role |-> "tool", name |-> toolName, content |-> <<err>>]

toolErrorResponse(toolName, err) ==
    [role |-> "tool", name |-> toolName, content |-> Marshal("FAILED", "error", <<err>>)]

\* fmt.Sprintf("%v", map[string]any): keys in sorted order, each value
\* printed without its type.
KeyOrder == <<"extension", "line_change", "line_number", "path", "type_change", "x">>

\* The verb %v on one value: a number is printed as its digits, a string
\* as it is.
Fmt(val) == IF val.t = "float64" THEN ToString(val.n) ELSE val.v

FmtArgs(args) ==
    LET keys == SelectSeq(KeyOrder, LAMBDA k : k \in DOMAIN args)
    IN  [i \in 1..Len(keys) |-> <<keys[i], Fmt(args[keys[i]])>>]

\* compareToolCalls with the name test inverted: batches with equal names
\* are reported as different.
compareToolCalls_NameTestInverted(lst, current) ==
    IF Len(lst) # Len(current) THEN EmptyD
    ELSE IF \E i \in 1..Len(lst) :
               \/ lst[i].name = current[i].name
               \/ FmtArgs(lst[i].args) # FmtArgs(current[i].args)
         THEN EmptyD
         ELSE toolErrorResponse(current[1].name, DupError)

compareToolCalls(lst, current) ==
    IF Len(lst) # Len(current) THEN EmptyD
    ELSE IF \E i \in 1..Len(lst) :
               \/ lst[i].name # current[i].name
               \/ FmtArgs(lst[i].args) # FmtArgs(current[i].args)
         THEN EmptyD
         ELSE toolErrorResponse(current[1].name, DupError)

-----------------------------------------------------------------------------
(* The tools.  A call returns [panic, resp, files].                        *)

NoFile == <<>>

Exists(fs, p) == p \in DOMAIN fs /\ fs[p] # NoFile

\* x.(string) succeeds
IsString(args, k) == k \in DOMAIN args /\ args[k].t = "string"
IsFloat(args, k) == k \in DOMAIN args /\ args[k].t = "float64"

\* arguments[k] != ""  (a missing key is nil, which differs from "")
NotEmptyString(args, k) == ~(IsString(args, k) /\ args[k].v = "")

Ret(resp, fs) == [panic |-> FALSE, resp |-> resp, files |-> fs]
Panic(fs) == [panic |-> TRUE, resp |-> EmptyD, files |-> fs]

ReadFileCall(args, fs, io) ==
    IF NotEmptyString(args, "path") /\ ~IsString(args, "path") THEN Panic(fs)
    ELSE LET dir == IF NotEmptyString(args, "path") THEN args["path"].v ELSE "."
         IN  IF ~io \/ ~Exists(fs, dir)
             THEN Ret(toolErrorResponse("read_file", "read error"), fs)
             ELSE Ret(toolSuccessResponse("read_file", "file_contents", fs[dir]), fs)

\* The regular files WalkDir visits under dir, in lexical order.
Walk(fs, dir) ==
    IF dir = "."
    THEN SelectSeq(<<"a.go", "b.go">>, LAMBDA p : Exists(fs, p))
    ELSE IF Exists(fs, dir) THEN <<".">> ELSE <<>>

HasSuffix(p, ext) == ext = "" \/ (ext = ".go" /\ p \in {"a.go", "b.go"})

ListFilesCall(args, fs, io) ==
    IF NotEmptyString(args, "path") /\ ~IsString(args, "path") THEN Panic(fs)
    ELSE LET dir == IF NotEmptyString(args, "path") THEN args["path"].v ELSE "."
             visited == SelectSeq(Walk(fs, dir), LAMBDA p : p # ".")
         IN  IF ~io \/ (dir # "." /\ ~Exists(fs, dir))
             THEN Ret(toolErrorResponse("list_files", "walk error"), fs)
             ELSE IF visited # <<>> /\ NotEmptyString(args, "extension")
                        /\ ~IsString(args, "extension")
                  THEN Panic(fs)
                  ELSE LET ext == IF NotEmptyString(args, "extension")
                                  THEN args["extension"].v ELSE ""
                       IN  Ret(toolSuccessResponse("list_files", "files",
                                   SelectSeq(visited, LAMBDA p : HasSuffix(p, ext))), fs)

CreateFileCall(args, fs, io) ==
    IF ~IsString(args, "path") THEN Panic(fs)
    ELSE LET filePath == args["path"].v
         IN  IF Exists(fs, filePath) \/ filePath = "."
             THEN Ret(toolErrorResponse("create_file", "file already exists"), fs)
             ELSE IF ~io \/ filePath \notin DOMAIN fs
                  THEN Ret(toolErrorResponse("create_file", "create error"), fs)
                  ELSE Ret(toolSuccessResponse("create_file", "message",
                               <<"File created successfully">>),
                           [fs EXCEPT ![filePath] = <<"">>])

\* go/parser.ParseFile: the source parses when it starts with a package
\* clause and holds no malformed line.
ParsesOK(lines) == lines # <<>> /\ lines[1] = "package" /\ \A i \in 1..Len(lines) : lines[i] # "bad"

\* go/format.Source drops trailing blank lines but one.
RECURSIVE FormatSource(_)
FormatSource(lines) ==
    IF Len(lines) > 1 /\ lines[Len(lines)] = "" /\ lines[Len(lines) - 1] = ""
    THEN FormatSource(SubSeq(lines, 1, Len(lines) - 1))
    ELSE lines

GoCodeEditorCall_WritesBeforeParse(args, fs, io) ==
    IF ~IsString(args, "path") \/ ~IsFloat(args, "line_number")
       \/ ~IsString(args, "type_change") \/ ~IsString(args, "line_change")
    THEN Panic(fs)
    ELSE LET path == args["path"].v
             lineNumber == args["line_number"].n
             typeChange == TrimSpace(args["type_change"].v)
             lineChange == TrimSpace(args["line_change"].v)
             name == "golang_code_editor"
         IN  IF ~Exists(fs, path)
             THEN Ret(toolErrorResponse(name, "read error"), fs)
             ELSE LET lines == fs[path] IN
                  IF lineNumber < 1 \/ lineNumber > Len(lines)
                  THEN Ret(toolErrorResponse(name, "line number is out of range"), fs)
                  ELSE IF typeChange \notin {"add", "replace", "delete"}
                  THEN Ret(toolErrorResponse(name, "unsupported change type"), fs)
                  ELSE LET modified ==
                               CASE typeChange = "add" ->
                                      SubSeq(lines, 1, lineNumber - 1) \o <<lineChange>>
                                        \o SubSeq(lines, lineNumber, Len(lines))
                                 [] typeChange = "replace" ->
                                      [lines EXCEPT ![lineNumber] = lineChange]
                                 [] typeChange = "delete" ->
                                      IF Len(lines) = 1 THEN <<"">>
                                      ELSE SubSeq(lines, 1, lineNumber - 1)
                                             \o SubSeq(lines, lineNumber + 1, Len(lines))
                       IN  IF ~ParsesOK(modified)
                           THEN Ret(toolErrorResponse(name, "syntax error after modification"),
                                    [fs EXCEPT ![path] = modified])
                           ELSE IF ~io
                           THEN Ret(toolErrorResponse(name, "write file"), fs)
                           ELSE Ret(toolSuccessResponse(name, "message", <<typeChange>>),
                                    [fs EXCEPT ![path] = FormatSource(modified)])

GoCodeEditorCall(args, fs, io) ==
    IF ~IsString(args, "path") \/ ~IsFloat(args, "line_number")
       \/ ~IsString(args, "type_change") \/ ~IsString(args, "line_change")
    THEN Panic(fs)
    ELSE LET path == args["path"].v
             lineNumber == args["line_number"].n
             typeChange == TrimSpace(args["type_change"].v)
             lineChange == TrimSpace(args["line_change"].v)
             name == "golang_code_editor"
         IN  IF ~Exists(fs, path)
             THEN Ret(toolErrorResponse(name, "read error"), fs)
             ELSE LET lines == fs[path] IN
                  IF lineNumber < 1 \/ lineNumber > Len(lines)
                  THEN Ret(toolErrorResponse(name, "line number is out of range"), fs)
                  ELSE IF typeChange \notin {"add", "replace", "delete"}
                  THEN Ret(toolErrorResponse(name, "unsupported change type"), fs)
                  ELSE LET modified ==
                               CASE typeChange = "add" ->
                                      SubSeq(lines, 1, lineNumber - 1) \o <<lineChange>>
                                        \o SubSeq(lines, lineNumber, Len(lines))
                                 [] typeChange = "replace" ->
                                      [lines EXCEPT ![lineNumber] = lineChange]
                                 [] typeChange = "delete" ->
                                      IF Len(lines) = 1 THEN <<"">>
                                      ELSE SubSeq(lines, 1, lineNumber - 1)
                                             \o SubSeq(lines, lineNumber + 1, Len(lines))
                       IN  IF ~ParsesOK(modified)
                           THEN Ret(toolErrorResponse(name, "syntax error after modification"), fs)
                           ELSE IF ~io
                           THEN Ret(toolErrorResponse(name, "write file"), fs)
                           ELSE Ret(toolSuccessResponse(name, "message", <<typeChange>>),
                                    [fs EXCEPT ![path] = FormatSource(modified)])

ToolNames == {"read_file", "list_files", "create_file", "golang_code_editor"}

Call(toolCall, fs, io) ==
    CASE toolCall.name = "read_file" -> ReadFileCall(toolCall.args, fs, io)
      [] toolCall.name = "list_files" -> ListFilesCall(toolCall.args, fs, io)
      [] toolCall.name = "create_file" -> CreateFileCall(toolCall.args, fs, io)
      [] toolCall.name = "golang_code_editor" -> GoCodeEditorCall(toolCall.args, fs, io)

\* callTools: the result is [panic, resps, files, called].
RECURSIVE callToolsFrom(_, _, _, _, _)
callToolsFrom(toolCalls, fs, io, resps, invoked) ==
    IF toolCalls = <<>>
    THEN [panic |-> FALSE, resps |-> resps, files |-> fs, called |-> invoked]
    ELSE LET toolCall == Head(toolCalls) IN
         IF toolCall.name \notin ToolNames
         THEN callToolsFrom(Tail(toolCalls), fs, io, resps, invoked)
         ELSE LET r == Call(toolCall, fs, io) IN
              IF r.panic
              THEN [panic |-> TRUE, resps |-> resps, files |-> r.files,
                    called |-> Append(invoked, toolCall)]
              ELSE callToolsFrom(Tail(toolCalls), r.files, io,
                                 Append(resps, r.resp), Append(invoked, toolCall))

callTools_Reversed(toolCalls, fs, io) ==
    callToolsFrom([i \in 1..Len(toolCalls) |-> toolCalls[Len(toolCalls) + 1 - i]],
                  fs, io, <<>>, <<>>)

callTools(toolCalls, fs, io) == callToolsFrom(toolCalls, fs, io, <<>>, <<>>)

-----------------------------------------------------------------------------
(* Stream events: one decoded chunk of the response *)

Event(tc, content, reasoning) ==
    [choices |-> 1, toolCalls |-> tc, content |-> content, reasoning |-> reasoning]

ReadA == ToolCall("read_file", [k \in {"path"} |-> Str("a.go")])
ReadNoPath == ToolCall("read_file", NoArgs)
CreateB == ToolCall("create_file", [k \in {"path"} |-> Str("b.go")])
ReadB == ToolCall("read_file", [k \in {"path"} |-> Str("b.go")])
Unknown == ToolCall("no_such_tool", NoArgs)

Batches ==
    {<<ReadA>>, <<CreateB, ReadB>>, <<Unknown>>, <<ReadNoPath>>, <<ReadA, Unknown>>}

ContentDeltas == {<<"a">>, <<"\n">>, <<"<think>">>, <<"</think>">>}

ToolEvents ==
    {Event(b, <<>>, <<>>) : b \in Batches}
      \cup {Event(<<>>, c, <<>>) : c \in {<<"a">>}}
      \cup {Event(<<>>, <<>>, <<"r">>), Event(<<>>, <<"a">>, <<"r">>)}

\* A frame the client could not decode: the event carries the error and
\* an empty list of choices.
ErrorEvent == [choices |-> 0, toolCalls |-> <<>>, content |-> <<>>, reasoning |-> <<>>]

BudgetEvents ==
    {Event(<<>>, c, <<>>) : c \in ContentDeltas}
      \cup {Event(<<>>, <<>>, <<"r">>), Event(<<>>, <<>>, <<>>), ErrorEvent}

Events == IF agent = "tool" THEN ToolEvents ELSE BudgetEvents

Inputs == IF agent = "tool" THEN {<<"u">>} ELSE {<<"u">>, <<"u", "u">>}

InitFiles == [p \in {"a.go", "b.go"} |-> IF p = "a.go" THEN <<"package", "huge">> ELSE NoFile]

-----------------------------------------------------------------------------
(* Initial states: Run has appended the system message and is at the top   *)
(* of its loop.                                                            *)

InitCommon ==
    /\ pc = "top"
    /\ conversation = <<SystemMessage>>
    /\ reasonContent = <<>>
    /\ chunks = <<>>
    /\ reasonThinking = FALSE
    /\ contentThinking = FALSE
    /\ inToolCall = FALSE
    /\ lastToolCall = <<>>
    /\ files = InitFiles
    /\ ch = <<>>
    /\ chOpen = FALSE
    /\ sent = 0
    /\ calls = 0
    /\ endReason = "none"
    /\ last = "init"
    /\ called = <<>>
    /\ prevBatch = <<>>
    /\ recvd = <<>>
    /\ answers = <<>>

InitTool ==
    /\ agent = "tool"
    /\ contextWindow = 168 * 1024
    /\ InitCommon

InitBudget ==
    /\ agent = "budget"
    /\ contextWindow \in 0..MaxWindow
    /\ InitCommon

-----------------------------------------------------------------------------
(* The streaming client (foundation/client, SSEClient.Do and its read      *)
(* loop): it pushes decoded events on the channel and closes the channel   *)
(* when the stream ends or the context is cancelled.                       *)

ClientSend(e) ==
    /\ pc = "stream" /\ chOpen
    /\ sent < MaxEvents /\ Len(ch) < ChanCap
    /\ ch' = Append(ch, e)
    /\ sent' = sent + 1
    /\ UNCHANGED <<agent, pc, conversation, reasonContent, chunks, reasonThinking,
                   contentThinking, inToolCall, lastToolCall, contextWindow, files,
                   chOpen, calls, endReason, last, called, prevBatch, recvd, answers>>

ClientEnd ==
    /\ pc = "stream" /\ chOpen
    /\ chOpen' = FALSE
    /\ endReason' = "terminal"
    /\ UNCHANGED <<agent, pc, conversation, reasonContent, chunks, reasonThinking,
                   contentThinking, inToolCall, lastToolCall, contextWindow, files,
                   ch, sent, calls, last, called, prevBatch, recvd, answers>>

\* The budget agent bounds every call by context.WithTimeout; the tool agent
\* passes context.TODO(), which is never cancelled.
ClientCancel ==
    /\ agent = "budget"
    /\ pc = "stream" /\ chOpen
    /\ chOpen' = FALSE
    /\ endReason' = "cancel"
    /\ UNCHANGED <<agent, pc, conversation, reasonContent, chunks, reasonThinking,
                   contentThinking, inToolCall, lastToolCall, contextWindow, files,
                   ch, sent, calls, last, called, prevBatch, recvd, answers>>

\* What Run does once Do has returned: the channel and the per-call
\* accumulators are fresh.
StartStream_ThinkingOn ==
    /\ pc' = "stream"
    /\ ch' = <<>>
    /\ chOpen' = TRUE
    /\ UNCHANGED sent
    /\ chunks' = <<>>
    /\ reasonThinking' = FALSE
    /\ contentThinking' = TRUE
    /\ reasonContent' = <<>>
    /\ endReason' = "open"
    /\ recvd' = <<>>

StartStream ==
    /\ pc' = "stream"
    /\ ch' = <<>>
    /\ chOpen' = TRUE
    /\ UNCHANGED sent
    /\ chunks' = <<>>
    /\ reasonThinking' = FALSE
    /\ contentThinking' = FALSE
    /\ reasonContent' = <<>>
    /\ endReason' = "open"
    /\ recvd' = <<>>

NoStream ==
    UNCHANGED <<ch, chOpen, sent, chunks, reasonThinking, contentThinking,
                reasonContent, endReason, recvd>>

-----------------------------------------------------------------------------
(* The tool agent: Agent.Run of example10/step4 *)

addToConversation_step4(reasoning, conv, d) == conv \o d

\* Lines 178-215 with the user's turn: read the input, append it, call Do.
ToolUserTurn(userInput, doOK) ==
    /\ agent = "tool" /\ pc = "top" /\ ~inToolCall
    /\ calls < MaxCalls
    /\ conversation' = Append(conversation, Message("user", userInput))
    /\ inToolCall' = FALSE
    /\ calls' = calls + 1
    /\ answers' = <<>>
    /\ called' = <<>>
    /\ IF doOK
       THEN StartStream /\ last' = "input_do_ok"
       ELSE NoStream /\ pc' = "fatal" /\ last' = "input_do_err"
    /\ UNCHANGED <<agent, lastToolCall, contextWindow, files, prevBatch>>

ToolTurn_ForgetsBatch(doOK) ==
    /\ agent = "tool" /\ pc = "top" /\ inToolCall
    /\ calls < MaxCalls
    /\ inToolCall' = FALSE
    /\ calls' = calls + 1
    /\ called' = <<>>
    /\ lastToolCall' = <<>>
    /\ IF doOK
       THEN StartStream /\ last' = "tool_do_ok"
       ELSE NoStream /\ pc' = "fatal" /\ last' = "tool_do_err"
    /\ UNCHANGED <<agent, conversation, contextWindow, files, prevBatch, answers>>

\* Lines 178-215 when a tool response is pending: no input is read.
ToolTurn(doOK) ==
    /\ agent = "tool" /\ pc = "top" /\ inToolCall
    /\ calls < MaxCalls
    /\ inToolCall' = FALSE
    /\ calls' = calls + 1
    /\ called' = <<>>
    /\ IF doOK
       THEN StartStream /\ last' = "tool_do_ok"
       ELSE NoStream /\ pc' = "fatal" /\ last' = "tool_do_err"
    /\ UNCHANGED <<agent, conversation, lastToolCall, contextWindow, files,
                   prevBatch, answers>>

\* getUserMessage reports no more input: Run breaks out of the loop.
ToolInputExhausted ==
    /\ agent = "tool" /\ pc = "top" /\ ~inToolCall
    /\ pc' = "done"
    /\ last' = "eof"
    /\ called' = <<>>
    /\ UNCHANGED <<agent, conversation, reasonContent, chunks, reasonThinking,
                   contentThinking, inToolCall, lastToolCall, contextWindow, files,
                   ch, chOpen, sent, calls, endReason, prevBatch, recvd, answers>>

\* One iteration of "for resp := range ch" (lines 231-296).
ToolRecv(io) ==
    /\ agent = "tool" /\ pc = "stream" /\ ch # <<>>
    /\ LET resp == Head(ch)
           delta == resp
       IN  /\ ch' = Tail(ch)
           /\ recvd' = Append(recvd, resp)
           /\ prevBatch' = IF resp.choices > 0 /\ Len(resp.toolCalls) > 0
                           THEN resp.toolCalls ELSE prevBatch
           /\ IF resp.choices = 0
              THEN \* resp.Choices[0]: index out of range
                   /\ pc' = "panic" /\ last' = "recv_panic" /\ called' = <<>>
                   /\ UNCHANGED <<conversation, inToolCall, lastToolCall, files, chunks,
                                  reasonThinking, contentThinking, reasonContent>>
              ELSE IF Len(delta.toolCalls) > 0
              THEN LET result == compareToolCalls(lastToolCall, delta.toolCalls) IN
                   IF result # EmptyD
                   THEN /\ conversation' =
                              addToConversation_step4(reasonContent, conversation, <<result>>)
                        /\ inToolCall' = TRUE
                        /\ last' = "recv_dup" /\ called' = <<>>
                        /\ UNCHANGED <<pc, lastToolCall, files, chunks, reasonThinking,
                                       contentThinking, reasonContent>>
                   ELSE LET r == callTools(delta.toolCalls, files, io) IN
                        /\ called' = r.called
                        /\ files' = r.files
                        /\ IF r.panic
                           THEN /\ pc' = "panic" /\ last' = "tool_panic"
                                /\ UNCHANGED <<conversation, inToolCall, lastToolCall>>
                           ELSE /\ pc' = pc /\ last' = "recv_tools"
                                /\ IF Len(r.resps) > 0
                                   THEN /\ conversation' = addToConversation_step4(
                                                reasonContent, conversation, r.resps)
                                        /\ inToolCall' = TRUE
                                        /\ lastToolCall' = delta.toolCalls
                                   ELSE UNCHANGED <<conversation, inToolCall, lastToolCall>>
                        /\ UNCHANGED <<chunks, reasonThinking, contentThinking, reasonContent>>
              ELSE IF delta.content # <<>>
              THEN /\ reasonThinking' = FALSE
                   /\ last' = "recv_content" /\ called' = <<>>
                   /\ IF delta.content = <<"<think>">>
                      THEN /\ contentThinking' = TRUE
                           /\ UNCHANGED <<chunks, reasonContent, lastToolCall>>
                      ELSE IF delta.content = <<"</think>">>
                      THEN /\ contentThinking' = FALSE
                           /\ UNCHANGED <<chunks, reasonContent, lastToolCall>>
                      ELSE /\ IF ~contentThinking
                              THEN /\ chunks' = Append(chunks, delta.content)
                                   /\ UNCHANGED reasonContent
                              ELSE /\ reasonContent' = Append(reasonContent, delta.content)
                                   /\ UNCHANGED chunks
                           /\ lastToolCall' = <<>>
                           /\ UNCHANGED contentThinking
                   /\ UNCHANGED <<pc, conversation, inToolCall, files>>
              ELSE IF delta.reasoning # <<>>
              THEN /\ reasonThinking' = TRUE
                   /\ reasonContent' = Append(reasonContent, delta.reasoning)
                   /\ last' = "recv_reasoning" /\ called' = <<>>
                   /\ UNCHANGED <<pc, conversation, inToolCall, lastToolCall, files,
                                  chunks, contentThinking>>
              ELSE /\ last' = "recv_none" /\ called' = <<>>
                   /\ UNCHANGED <<pc, conversation, inToolCall, lastToolCall, files,
                                  chunks, reasonThinking, contentThinking, reasonContent>>
    /\ UNCHANGED <<agent, contextWindow, chOpen, sent, calls, endReason, answers>>

\* The channel is closed and drained: lines 302-314.
ToolStreamEnd_NoDrain ==
    /\ agent = "tool" /\ pc = "stream"
    /\ pc' = "top"
    /\ answers' = Append(answers, recvd)
    /\ called' = <<>>
    /\ LET content == TrimLeft(Join(chunks, <<" ">>), {"\n"}) IN
       IF ~inToolCall /\ Len(chunks) > 0 /\ content # <<>>
       THEN /\ conversation' = addToConversation_step4(reasonContent, conversation,
                                    <<Message("assistant", content)>>)
            /\ last' = "end_commit"
       ELSE /\ UNCHANGED conversation
            /\ last' = "end_nocommit"
    /\ UNCHANGED <<agent, reasonContent, chunks, reasonThinking, contentThinking,
                   inToolCall, lastToolCall, contextWindow, files, ch, chOpen, sent,
                   calls, endReason, prevBatch, recvd>>

ToolStreamEnd ==
    /\ agent = "tool" /\ pc = "stream" /\ ch = <<>> /\ ~chOpen
    /\ pc' = "top"
    /\ answers' = Append(answers, recvd)
    /\ called' = <<>>
    /\ LET content == TrimLeft(Join(chunks, <<" ">>), {"\n"}) IN
       IF ~inToolCall /\ Len(chunks) > 0 /\ content # <<>>
       THEN /\ conversation' = addToConversation_step4(reasonContent, conversation,
                                    <<Message("assistant", content)>>)
            /\ last' = "end_commit"
       ELSE /\ UNCHANGED conversation
            /\ last' = "end_nocommit"
    /\ UNCHANGED <<agent, reasonContent, chunks, reasonThinking, contentThinking,
                   inToolCall, lastToolCall, contextWindow, files, ch, chOpen, sent,
                   calls, endReason, prevBatch, recvd>>

NextTool ==
    \/ \E userInput \in Inputs, doOK \in BOOLEAN : ToolUserTurn(userInput, doOK)
    \/ \E doOK \in BOOLEAN : ToolTurn(doOK)
    \/ ToolInputExhausted
    \/ \E e \in Events : ClientSend(e)
    \/ ClientEnd
    \/ \E io \in BOOLEAN : ToolRecv(io)
    \/ ToolStreamEnd

SpecTool == InitTool /\ [][NextTool]_vars

-----------------------------------------------------------------------------
(* The budget agent: Agent.Run and addToConversation of example10 step2 *)

\* slices.Delete(conversation, 0, 1): the oldest message of all is removed.
DeleteIndex0(conv) == Tail(conv)

\* slices.Delete(conversation, len-1, len): the newest message is removed.
DeleteNewest(conv) == SubSeq(conv, 1, Len(conv) - 1)

\* slices.Delete(conversation, 1, 2)
DeleteIndex1(conv) == <<conv[1]>> \o SubSeq(conv, 3, Len(conv))

\* The eviction loop without its "continue": one message at most is removed.
Evict_Once(conv, window) ==
    IF SumTokens(conv) > window
    THEN IF Len(conv) < 2
         THEN [panic |-> TRUE, conversation |-> conv]
         ELSE [panic |-> FALSE, conversation |-> DeleteIndex1(conv)]
    ELSE [panic |-> FALSE, conversation |-> conv]

\* The eviction loop deciding on the non-system messages only.
RECURSIVE Evict_NonSystem(_, _)
Evict_NonSystem(conv, window) ==
    LET currentWindow == SumTokens(Tail(conv)) IN
    IF currentWindow > window
    THEN IF Len(conv) < 2
         THEN [panic |-> TRUE, conversation |-> conv]
         ELSE Evict_NonSystem(DeleteIndex1(conv), window)
    ELSE [panic |-> FALSE, conversation |-> conv]

\* The eviction loop (lines 272-297): the result is [panic, conversation].
RECURSIVE Evict(_, _)
Evict(conv, window) ==
    LET currentWindow == SumTokens(conv) IN
    IF currentWindow > window
    THEN IF Len(conv) < 2
         THEN [panic |-> TRUE, conversation |-> conv]
         ELSE Evict(DeleteIndex1(conv), window)
    ELSE [panic |-> FALSE, conversation |-> conv]

addToConversation_Prepends(reasoning, conv, newMessages, window) ==
    Evict(newMessages \o conv, window)

addToConversation(reasoning, conv, newMessages, window) ==
    Evict(conv \o newMessages, window)

\* Lines 143-173: read the input, append it, call Do; on an error report it
\* and continue with the next iteration.
BudgetUserTurn(userInput, doOK) ==
    /\ agent = "budget" /\ pc = "top"
    /\ calls < MaxCalls
    /\ conversation' = Append(conversation, Message("user", userInput))
    /\ calls' = calls + 1
    /\ answers' = <<>>
    /\ IF doOK
       THEN StartStream /\ last' = "input_do_ok"
       ELSE NoStream /\ pc' = "top" /\ last' = "input_do_err"
    /\ UNCHANGED <<agent, inToolCall, lastToolCall, contextWindow, files, called,
                   prevBatch>>

BudgetInputExhausted ==
    /\ agent = "budget" /\ pc = "top"
    /\ pc' = "done"
    /\ last' = "eof"
    /\ UNCHANGED <<agent, conversation, reasonContent, chunks, reasonThinking,
                   contentThinking, inToolCall, lastToolCall, contextWindow, files,
                   ch, chOpen, sent, calls, endReason, called, prevBatch, recvd,
                   answers>>

\* One iteration of "for resp := range ch" (lines 186-232).
BudgetRecv ==
    /\ agent = "budget" /\ pc = "stream" /\ ch # <<>>
    /\ LET resp == Head(ch)
           delta == resp
       IN  /\ ch' = Tail(ch)
           /\ recvd' = Append(recvd, resp)
           /\ IF resp.choices = 0
              THEN /\ pc' = "panic" /\ last' = "recv_panic"
                   /\ UNCHANGED <<chunks, reasonThinking, contentThinking, reasonContent>>
              ELSE IF delta.content # <<>>
              THEN /\ reasonThinking' = FALSE
                   /\ last' = "recv_content"
                   /\ IF delta.content = <<"<think>">>
                      THEN /\ contentThinking' = TRUE
                           /\ UNCHANGED <<chunks, reasonContent>>
                      ELSE IF delta.content = <<"</think>">>
                      THEN /\ contentThinking' = FALSE
                           /\ UNCHANGED <<chunks, reasonContent>>
                      ELSE /\ IF ~contentThinking
                              THEN /\ chunks' = Append(chunks, delta.content)
                                   /\ UNCHANGED reasonContent
                              ELSE /\ reasonContent' = Append(reasonContent, delta.content)
                                   /\ UNCHANGED chunks
                           /\ UNCHANGED contentThinking
                   /\ UNCHANGED pc
              ELSE IF delta.reasoning # <<>>
              THEN /\ reasonThinking' = TRUE
                   /\ reasonContent' = Append(reasonContent, delta.reasoning)
                   /\ last' = "recv_reasoning"
                   /\ UNCHANGED <<pc, chunks, contentThinking>>
              ELSE /\ last' = "recv_none"
                   /\ UNCHANGED <<pc, chunks, reasonThinking, contentThinking,
                                  reasonContent>>
    /\ UNCHANGED <<agent, conversation, inToolCall, lastToolCall, contextWindow, files,
                   chOpen, sent, calls, endReason, called, prevBatch, answers>>

BudgetStreamEnd_ReasoningJoined ==
    /\ agent = "budget" /\ pc = "stream" /\ ch = <<>> /\ ~chOpen
    /\ answers' = Append(answers, recvd)
    /\ LET content == TrimLeft(Join(reasonContent \o chunks, <<" ">>), {"\n"}) IN
       IF Len(chunks) > 0 /\ content # <<>>
       THEN LET r == addToConversation(reasonContent, conversation,
                                       <<Message("assistant", content)>>, contextWindow)
            IN  /\ conversation' = r.conversation
                /\ IF r.panic
                   THEN pc' = "panic" /\ last' = "evict_panic"
                   ELSE pc' = "top" /\ last' = "end_commit"
       ELSE /\ UNCHANGED conversation
            /\ pc' = "top"
            /\ last' = "end_nocommit"
    /\ UNCHANGED <<agent, reasonContent, chunks, reasonThinking, contentThinking,
                   inToolCall, lastToolCall, contextWindow, files, ch, chOpen, sent,
                   calls, endReason, called, prevBatch, recvd>>

\* The channel is closed and drained: lines 234-253.
BudgetStreamEnd ==
    /\ agent = "budget" /\ pc = "stream" /\ ch = <<>> /\ ~chOpen
    /\ answers' = Append(answers, recvd)
    /\ LET content == TrimLeft(Join(chunks, <<" ">>), {"\n"}) IN
       IF Len(chunks) > 0 /\ content # <<>>
       THEN LET r == addToConversation(reasonContent, conversation,
                                       <<Message("assistant", content)>>, contextWindow)
            IN  /\ conversation' = r.conversation
                /\ IF r.panic
                   THEN pc' = "panic" /\ last' = "evict_panic"
                   ELSE pc' = "top" /\ last' = "end_commit"
       ELSE /\ UNCHANGED conversation
            /\ pc' = "top"
            /\ last' = "end_nocommit"
    /\ UNCHANGED <<agent, reasonContent, chunks, reasonThinking, contentThinking,
                   inToolCall, lastToolCall, contextWindow, files, ch, chOpen, sent,
                   calls, endReason, called, prevBatch, recvd>>

NextBudget ==
    \/ \E userInput \in Inputs, doOK \in BOOLEAN : BudgetUserTurn(userInput, doOK)
    \/ BudgetInputExhausted
    \/ \E e \in Events : ClientSend(e)
    \/ ClientEnd
    \/ ClientCancel
    \/ BudgetRecv
    \/ BudgetStreamEnd

SpecBudget == InitBudget /\ [][NextBudget]_vars

-----------------------------------------------------------------------------
(* Properties *)

\* The step is an iteration of the tool agent's receive loop on an event
\* that carries a non-empty tool-call batch.
RecvBatchStep ==
    /\ agent = "tool" /\ pc = "stream" /\ ch # <<>>
    /\ recvd' = Append(recvd, Head(ch))
    /\ Head(ch).choices > 0
    /\ Len(Head(ch).toolCalls) > 0

Registered(batch) == \A i \in 1..Len(batch) : batch[i].name \in ToolNames

DupResponse(batch) == toolErrorResponse(batch[1].name, DupError)

BatchSeen == \E i \in 1..Len(recvd) : recvd[i].choices > 0 /\ Len(recvd[i].toolCalls) > 0

\* Every call since the last user input was answered with the same single
\* tool-call batch.
AllSameBatch ==
    /\ Len(answers) > 0
    /\ \A i \in 1..Len(answers) :
          /\ Len(answers[i]) = 1
          /\ Len(answers[i][1].toolCalls) > 0
          /\ answers[i] = answers[1]

\* C1 (as stated): a non-empty batch identical to the immediately preceding
\* batch (of registered tools) invokes no tool and appends exactly the one
\* FAILED "data already provided" message, whatever arrived between the two.
C1_DuplicateOfPrecedingBatch ==
    [][(RecvBatchStep /\ Head(ch).toolCalls = prevBatch /\ Registered(prevBatch))
          => /\ called' = <<>>
             /\ conversation' = Append(conversation, DupResponse(Head(ch).toolCalls))]_vars

\* C1 (amended): a non-empty batch identical to the remembered batch
\* lastToolCall invokes no tool, appends exactly the one FAILED "data
\* already provided" message, marks a tool response as pending and leaves
\* the remembered batch alone.
C1_DuplicateOfRememberedBatch ==
    [][(RecvBatchStep /\ Head(ch).toolCalls = lastToolCall)
          => /\ called' = <<>>
             /\ files' = files
             /\ conversation' = Append(conversation, DupResponse(Head(ch).toolCalls))
             /\ inToolCall'
             /\ lastToolCall' = lastToolCall]_vars

\* A duplicate was answered in a later model call than the one that
\* dispatched the batch, reasoning text having arrived in between.
C1_Witness ==
    /\ agent = "tool" /\ last = "recv_dup"
    /\ Len(answers) > 0
    /\ Len(recvd) = 2 /\ recvd[1].reasoning # <<>>
    /\ conversation[Len(conversation)] = DupResponse(lastToolCall)

\* C2: when addToConversation of the budget agent returns, the non-system
\* messages hold at most contextWindow tokens, or only the system message
\* and one more message remain.
C2_ReconcileFitsWindow ==
    (agent = "budget" /\ last = "end_commit")
        => \/ SumTokens(Tail(conversation)) <= contextWindow
           \/ Len(conversation) = 2

\* addToConversation has returned after evicting at least two messages.
C2_Witness ==
    /\ agent = "budget" /\ last = "end_commit"
    /\ calls = 3
    /\ Len(conversation) = 3

\* C3: no assistant message is committed at the end of a stream that was
\* cancelled before its terminal event.
C3_CancelledStreamCommitsNothing ==
    ~(endReason = "cancel" /\ last = "end_commit")

\* C4: a non-duplicate batch of n calls (no tool aborting) appends exactly
\* n tool messages and is remembered for the next duplicate check.
C4_OneMessagePerCall ==
    [][(RecvBatchStep /\ compareToolCalls(lastToolCall, Head(ch).toolCalls) = EmptyD
          /\ pc' # "panic")
          => /\ Len(conversation') = Len(conversation) + Len(Head(ch).toolCalls)
             /\ \A i \in 1..Len(Head(ch).toolCalls) :
                    conversation'[Len(conversation) + i].role = "tool"
             /\ lastToolCall' = Head(ch).toolCalls]_vars

\* C5: Call is total, no tool call aborts the process.
C5_CallIsTotal == ~(pc = "panic" /\ last = "tool_panic")

\* C6: the eviction loop of addToConversation never errors, it returns a
\* conversation.
C6_EvictionNeverErrors == ~(pc = "panic" /\ last = "evict_panic")

\* C7: when the model has answered every call since the user's input with
\* the same batch, as often as the model can answer at all, the agent has
\* stopped issuing model calls and awaits user input.
C7_RepeatedBatchStops ==
    (agent = "tool" /\ pc = "top" /\ AllSameBatch /\ Len(answers) >= MaxCalls)
        => ~inToolCall

\* C8: after a stream that carried a tool-call batch the next model call is
\* issued without reading user input, and user input is read only after a
\* stream that carried none.
C8_InputOnlyAfterStreamWithoutBatch ==
    [][(agent = "tool" /\ pc = "top" /\ last \in {"end_commit", "end_nocommit"})
          => /\ BatchSeen => last' \in {"tool_do_ok", "tool_do_err"}
             /\ last' \in {"input_do_ok", "input_do_err", "eof"} => ~BatchSeen]_vars

\* C9: a turn of the budget agent whose Do fails leaves the conversation as
\* it was when the agent awaited the user's input.
C9_FailedOpenKeepsConversation ==
    [][(agent = "budget" /\ pc = "top" /\ calls' = calls + 1 /\ last' = "input_do_err")
          => conversation' = conversation]_vars

\* C10: after Do has returned a transport error the agent is back at
\* awaiting user input.
C10_TransportErrorRecovered ==
    last \in {"input_do_err", "tool_do_err"} => (pc = "top" /\ ~inToolCall)

\* The assistant message a stream end commits, and the step of the budget
\* agent that commits it (addToConversation is called).
Committed == Message("assistant", TrimLeft(Join(chunks, <<" ">>), {"\n"}))

BudgetCommitStep ==
    /\ agent = "budget" /\ pc = "stream"
    /\ answers' = Append(answers, recvd)
    /\ last' \in {"end_commit", "evict_panic"}

\* C11 (as stated): addToConversation removes a message exactly when the
\* tokens of the non-system messages plus the reasoning tokens of the call
\* exceed the window limit.
C11_EvictsOnNonSystemPlusReasoning ==
    [][BudgetCommitStep
          => LET app == Append(conversation, Committed) IN
             (conversation' # app)
                <=> (SumTokens(Tail(app)) + TokenCount(Join(reasonContent, <<" ">>))
                        > contextWindow)]_vars

\* C11 (amended): addToConversation removes a message exactly when the
\* tokens of all messages, the system message included, exceed the window
\* limit, and when it returns they no longer do; reasoning tokens play no
\* part.
C11_EvictsOnAllMessages ==
    [][BudgetCommitStep
          => LET app == Append(conversation, Committed) IN
             /\ (conversation' # app) <=> (SumTokens(app) > contextWindow)
             /\ pc' # "panic" => SumTokens(conversation') <= contextWindow]_vars

\* addToConversation has returned a conversation that fits the window,
\* although the reasoning tokens of the call bring the sum over the limit.
C11_Witness ==
    /\ agent = "budget" /\ last = "end_commit"
    /\ reasonContent # <<>>
    /\ Len(conversation) >= 3
    /\ SumTokens(conversation) <= contextWindow
    /\ SumTokens(Tail(conversation)) + TokenCount(Join(reasonContent, <<" ">>))
          > contextWindow

\* C12: the conversation is never empty and its first element is the system
\* message appended at start-up.
C12_SystemMessageStays ==
    /\ Len(conversation) >= 1
    /\ conversation[1] = SystemMessage

\* The eviction loop has removed every message but the system message and
\* the assistant message just committed.
C12_Witness ==
    /\ agent = "budget" /\ last = "end_commit"
    /\ calls >= 2
    /\ Len(conversation) = 2
    /\ conversation[2].role = "assistant"

\* C13: what addToConversation leaves is the system message followed by a
\* suffix of the non-system messages: a message is removed only when all
\* the non-system messages before it are, and the others keep their order.
C13_EvictionIsFIFO ==
    [][BudgetCommitStep
          => LET app == Append(conversation, Committed) IN
             \E k \in 0..(Len(app) - 1) :
                conversation' = <<app[1]>> \o SubSeq(app, k + 2, Len(app))]_vars

\* Two user messages were in the conversation, the older has been removed
\* and the newer is still there, before the committed message.
C13_Witness ==
    /\ agent = "budget" /\ last = "end_commit"
    /\ calls = 2
    /\ Len(conversation) = 3
    /\ conversation[2] = Message("user", <<"u">>)
    /\ conversation[3].role = "assistant"

\* C14: in the tool agent, once an assistant or tool message has been
\* committed through addToConversation, the non-system messages hold at
\* most contextWindow tokens.
C14_ToolConversationFitsWindow ==
    (agent = "tool" /\ last \in {"recv_tools", "recv_dup", "end_commit"})
        => SumTokens(Tail(conversation)) <= contextWindow

\* The step is an iteration of a receive loop, and the step is the end of
\* the tool agent's stream (lines 302-314).
RecvStep ==
    /\ pc = "stream" /\ ch # <<>>
    /\ recvd' = Append(recvd, Head(ch))

ToolEndStep ==
    /\ agent = "tool" /\ pc = "stream"
    /\ answers' = Append(answers, recvd)

Assistants(conv) == Cardinality({i \in 1..Len(conv) : conv[i].role = "assistant"})

\* C15: at the end of a stream one assistant message is appended if visible
\* content was accumulated, the stream carried no tool-call batch and the
\* joined content is not empty once the leading line breaks are stripped;
\* otherwise none is, and no other step of a model call appends one.
C15_AssistantAppendedIff ==
    [][(agent = "tool" /\ pc = "stream")
          => IF ToolEndStep
             THEN LET content == TrimLeft(Join(chunks, <<>>), {"\n"}) IN
                  IF Len(chunks) > 0 /\ ~BatchSeen /\ content # <<>>
                  THEN /\ Len(conversation') = Len(conversation) + 1
                       /\ Assistants(conversation') = Assistants(conversation) + 1
                  ELSE conversation' = conversation
             ELSE Assistants(conversation') = Assistants(conversation)]_vars

\* C16: the assistant message committed at the end of a stream holds the
\* visible fragments of the call, concatenated in order with nothing
\* between them, without the leading line breaks.
C16_AssistantContentIsJoinedTrimmed ==
    (agent = "tool" /\ last = "end_commit")
        => conversation[Len(conversation)].content = TrimLeft(Join(chunks, <<>>), {"\n"})

\* C17: an event without tool calls that carries reasoning text has that
\* text appended to the reasoning accumulator, also when it carries content.
C17_ReasoningAlwaysAccumulated ==
    [][(RecvStep /\ Head(ch).choices > 0 /\ Len(Head(ch).toolCalls) = 0
          /\ Head(ch).reasoning # <<>>)
          => reasonContent' = Append(reasonContent, Head(ch).reasoning)]_vars

\* The inline markers, and whether the content deltas of the events received
\* so far leave the stream inside a span opened by "<think>" and not yet
\* closed by "</think>".
Markers == {<<"<think>">>, <<"</think>">>}

RECURSIVE InSpan(_)
InSpan(events) ==
    IF events = <<>> THEN FALSE
    ELSE LET e == events[Len(events)] IN
         IF e.content = <<"<think>">> THEN TRUE
         ELSE IF e.content = <<"</think>">> THEN FALSE
         ELSE InSpan(SubSeq(events, 1, Len(events) - 1))

Contents(events) ==
    LET idx == {i \in 1..Len(events) : events[i].content # <<>>}
        RECURSIVE Pick(_)
        Pick(i) == IF i > Len(events) THEN <<>>
                   ELSE (IF i \in idx THEN <<events[i].content>> ELSE <<>>) \o Pick(i + 1)
    IN  Pick(1)

\* C18: a content delta equal to a marker changes neither accumulator; any
\* other content delta goes to the reasoning accumulator only when it is
\* received inside a span, and to the visible accumulator only otherwise.
C18_InlineMarkersRoute ==
    [][(agent = "budget" /\ RecvStep /\ Head(ch).choices > 0 /\ Head(ch).content # <<>>)
          => LET c == Head(ch).content IN
             IF c \in Markers
             THEN chunks' = chunks /\ reasonContent' = reasonContent
             ELSE IF InSpan(recvd)
             THEN reasonContent' = Append(reasonContent, c) /\ chunks' = chunks
             ELSE chunks' = Append(chunks, c) /\ reasonContent' = reasonContent]_vars

C18_Witness ==
    /\ agent = "budget"
    /\ Contents(recvd) = <<<<"<think>">>, <<"\n">>, <<"</think>">>, <<"a">>>>
    /\ chunks = <<<<"a">>>>
    /\ reasonContent = <<<<"\n">>>>

\* The visible fragments of a stream: the content deltas that are not
\* markers and were received outside every span.
RECURSIVE VisibleFragments(_)
VisibleFragments(events) ==
    IF events = <<>> THEN <<>>
    ELSE LET front == SubSeq(events, 1, Len(events) - 1)
             e == events[Len(events)]
         IN  VisibleFragments(front)
               \o (IF e.choices > 0 /\ e.content # <<>> /\ e.content \notin Markers
                      /\ ~InSpan(front)
                   THEN <<e.content>> ELSE <<>>)

Symbols(text) == {text[i] : i \in 1..Len(text)}

\* C19: no message of the conversation holds text of the reasoning channel,
\* and the assistant message committed at the end of a stream is made of
\* the fragments received outside the inline spans only.
C19_ReasoningNeverPersisted ==
    /\ \A i \in 1..Len(conversation) : "r" \notin Symbols(conversation[i].content)
    /\ (agent = "budget" /\ last = "end_commit" /\ Len(conversation) >= 2)
          => conversation[Len(conversation)].content
                = TrimLeft(Join(VisibleFragments(recvd), <<" ">>), {"\n"})

C19_Witness ==
    /\ agent = "budget" /\ last = "end_commit"
    /\ Len(conversation) >= 2
    /\ conversation[Len(conversation)].role = "assistant"
    /\ reasonContent = <<<<"r">>, <<"\n">>>>
    /\ InSpan(recvd)

\* The tool agent under the scheduling the code gives: the consumer loop
\* runs whenever it can and the timer of a turn fires when there is one;
\* nothing obliges the endpoint to send an event or its terminal marker.
ToolAgentStep == (\E io \in BOOLEAN : ToolRecv(io)) \/ ToolStreamEnd

SpecToolFair ==
    InitTool /\ [][NextTool]_vars /\ WF_vars(ToolAgentStep) /\ WF_vars(ClientCancel)

\* C20: a model call whose stream is open does not stay open for ever: the
\* channel is eventually closed, by the terminal marker or by the timeout
\* of the turn.
C20_HungTurnEnds ==
    (agent = "tool" /\ pc = "stream" /\ chOpen) ~> ~(pc = "stream" /\ chOpen)

\* The calls of a batch that name a registered tool, the file system the
\* n-th of them leaves behind and the message it returns, each call
\* starting from what the one before it left.
Invoked(batch) == SelectSeq(batch, LAMBDA toolCall : toolCall.name \in ToolNames)

RECURSIVE FilesAfter(_, _, _, _)
FilesAfter(toolCalls, fs, io, n) ==
    IF n = 0 THEN fs
    ELSE Call(toolCalls[n], FilesAfter(toolCalls, fs, io, n - 1), io).files

ResponseOf(toolCalls, fs, io, n) ==
    Call(toolCalls[n], FilesAfter(toolCalls, fs, io, n - 1), io).resp

\* C21: a dispatched batch invokes its tools one after the other in the
\* order of the batch, each on the files the previous one left, and the
\* tool messages are appended to the conversation in that order.
C21_DispatchSequentialOrdered ==
    [][(RecvBatchStep /\ last' = "recv_tools")
          => \E io \in BOOLEAN :
                LET inv == Invoked(Head(ch).toolCalls) IN
                /\ called' = inv
                /\ files' = FilesAfter(inv, files, io, Len(inv))
                /\ conversation' = conversation
                      \o [i \in 1..Len(inv) |-> ResponseOf(inv, files, io, i)]]_vars

C21_Witness ==
    /\ agent = "tool" /\ last = "recv_tools"
    /\ called = <<CreateB, ReadB>>
    /\ Len(conversation) >= 4
    /\ conversation[Len(conversation) - 1]
          = toolSuccessResponse("create_file", "message", <<"File created successfully">>)
    /\ conversation[Len(conversation)]
          = toolSuccessResponse("read_file", "file_contents", <<"">>)

\* The tool agent with a finite input source: besides the scheduling of
\* SpecToolFair, getUserMessage eventually reports that no input is left.
SpecToolFiniteInput == SpecToolFair /\ WF_vars(ToolInputExhausted)

\* C22: with a finite input source, every model call is followed by Run
\* returning (nil at the end of the input, or the error of a failed
\* request), unless the model is still requesting tools at the bound.
C22_RunEventuallyReturns ==
    (agent = "tool" /\ pc = "stream")
        ~> (pc \in {"done", "fatal"} \/ (pc = "top" /\ inToolCall /\ calls >= MaxCalls))

\* The step issues a model call (a request the client accepted), and the
\* step reads the user's input.
CallStep == calls' = calls + 1 /\ pc' = "stream"

InputStep == last' \in {"input_do_ok", "input_do_err", "eof"} /\ pc = "top"

\* C23: a model call is issued and user input is read only when the channel
\* of the previous call is closed and empty, and every call starts on a new
\* channel, open and empty.
C23_SingleActiveTurn ==
    [][/\ (calls' # calls \/ InputStep) => (ch = <<>> /\ ~chOpen)
       /\ CallStep => (ch' = <<>> /\ chOpen')]_vars

C23_Witness ==
    /\ agent = "tool" /\ last = "tool_do_ok"
    /\ calls = 2 /\ pc = "stream" /\ chOpen /\ ch = <<>>
    /\ Len(answers) = 1 /\ Len(answers[1]) >= 2

\* C24 as stated: a model call starts with empty fragments, both reasoning
\* flags false and no remembered tool-call batch.
C24_AccumulatorAndBatchFresh ==
    [][CallStep => /\ chunks' = <<>> /\ reasonContent' = <<>>
                   /\ ~reasonThinking' /\ ~contentThinking'
                   /\ lastToolCall' = <<>>]_vars

\* C24: a model call starts with empty fragments and both reasoning flags
\* false; the remembered tool-call batch is carried over from the call
\* before.
C24_AccumulatorFreshBatchKept ==
    [][CallStep => /\ chunks' = <<>> /\ reasonContent' = <<>>
                   /\ ~reasonThinking' /\ ~contentThinking'
                   /\ lastToolCall' = lastToolCall]_vars

C24_Witness ==
    /\ agent = "tool" /\ last = "tool_do_ok" /\ pc = "stream"
    /\ chunks = <<>> /\ reasonContent = <<>> /\ ~reasonThinking
    /\ lastToolCall # <<>>
    /\ Len(answers) = 1
    /\ \E i \in 1..Len(answers[1]) : answers[1][i].reasoning # <<>>

-----------------------------------------------------------------------------
(* compareToolCalls on its own: the two batches are drawn, then compared.  *)

CompareArgs ==
    {[k \in {"x"} |-> Str("1")], [k \in {"x"} |-> Num(1)], [k \in {"x"} |-> Str("2")]}

CompareCalls == {ToolCall(n, a) : n \in {"read_file", "list_files"}, a \in CompareArgs}

CompareBatches ==
    {<<c>> : c \in CompareCalls}
      \cup {<<c, ToolCall("read_file", NoArgs)>> :
               c \in {ToolCall("read_file", a) : a \in CompareArgs}}

InitCompare ==
    /\ agent = "compare"
    /\ contextWindow = 0
    /\ pc = "top"
    /\ conversation = <<>>
    /\ reasonContent = <<>>
    /\ chunks = <<>>
    /\ reasonThinking = FALSE
    /\ contentThinking = FALSE
    /\ inToolCall = FALSE
    /\ lastToolCall \in CompareBatches \cup {<<>>}
    /\ prevBatch \in CompareBatches
    /\ files = InitFiles
    /\ ch = <<>>
    /\ chOpen = FALSE
    /\ sent = 0
    /\ calls = 0
    /\ endReason = "none"
    /\ last = "init"
    /\ called = <<>>
    /\ recvd = <<>>
    /\ answers = <<>>

\* result := compareToolCalls(lastToolCall, resp.Choices[0].Delta.ToolCalls)
Compare ==
    /\ agent = "compare" /\ pc = "top"
    /\ conversation' = <<compareToolCalls(lastToolCall, prevBatch)>>
    /\ pc' = "done"
    /\ last' = "compare"
    /\ UNCHANGED <<agent, reasonContent, chunks, reasonThinking, contentThinking,
                   inToolCall, lastToolCall, contextWindow, files, ch, chOpen, sent,
                   calls, endReason, called, prevBatch, recvd, answers>>

NextCompare == Compare

SpecCompare == InitCompare /\ [][NextCompare]_vars

\* Two batches are equal call by call: the same name, the same keys, and
\* under every key a value of the same type and the same value.
SameValue(a, b) == a.t = b.t /\ a.v = b.v /\ a.n = b.n

SameCall(a, b) ==
    /\ a.name = b.name
    /\ DOMAIN a.args = DOMAIN b.args
    /\ \A k \in DOMAIN a.args : SameValue(a.args[k], b.args[k])

SameBatch(lst, current) ==
    /\ Len(lst) = Len(current)
    /\ \A i \in 1..Len(lst) : SameCall(lst[i], current[i])

\* C25: compareToolCalls reports a duplicate exactly when the two batches
\* are equal in length and, call by call, in name and in arguments, the
\* type of each value included.
C25_DuplicateIffEqual ==
    (agent = "compare" /\ last = "compare")
        => ((conversation[1] # EmptyD) <=> SameBatch(lastToolCall, prevBatch))

\* json.Unmarshal of a tool message content into struct{Status; Data}: the
\* content decodes when it holds a status and a data field with a key.
Decodes(content) ==
    /\ Len(content) >= 4
    /\ content[1] = "status" /\ content[2] \in {"SUCCESS", "FAILED"}
    /\ content[3] = "data"

BuiltByResponse(m) ==
    \/ m = toolSuccessResponse(m.name, m.content[4], SubSeq(m.content, 5, Len(m.content)))
    \/ Len(m.content) = 5 /\ m = toolErrorResponse(m.name, m.content[5])

\* C26: every tool message of the tool agent's conversation decodes to a
\* result with status SUCCESS or FAILED and a data field, and is a value of
\* toolSuccessResponse or toolErrorResponse.
C26_ToolMessagesStructured ==
    agent = "tool" =>
        \A i \in 1..Len(conversation) :
            conversation[i].role = "tool"
                => Decodes(conversation[i].content) /\ BuiltByResponse(conversation[i])

C26_Witness ==
    /\ agent = "tool"
    /\ \E i, j \in 1..Len(conversation) :
          /\ conversation[i].role = "tool" /\ conversation[i].content[2] = "SUCCESS"
          /\ conversation[j] = toolErrorResponse("read_file", DupError)

\* C27: the receive loop handles an event that carries an error and no
\* choices: the process does not crash on it and no assistant message is
\* committed for it.
C27_ErrorEventHandled ==
    [][(RecvStep /\ Head(ch).choices = 0)
          => (pc' # "panic" /\ conversation' = conversation)]_vars

\* C28: whenever the budget agent makes a model request from a conversation
\* that fitted the window before the turn, the messages of the request
\* (the user message of the turn included) hold at most contextWindow
\* tokens.
C28_RequestFitsWindow ==
    [][(agent = "budget" /\ calls' = calls + 1
          /\ SumTokens(conversation) <= contextWindow)
          => SumTokens(conversation') <= contextWindow]_vars

\* The system message followed by the non-system messages from position
\* k + 2 on: what is left when the k oldest non-system messages are gone.
KeepFrom(conv, k) == <<conv[1]>> \o SubSeq(conv, k + 2, Len(conv))

Fits(conv, window) == SumTokens(conv) <= window

\* C29: addToConversation returns the system message followed by the
\* longest suffix of the non-system messages that fits the window together
\* with it, and the whole conversation when that already fits.
C29_EvictionIsMinimal ==
    [][BudgetCommitStep
          => LET app == Append(conversation, Committed) IN
             /\ pc' # "panic"
             /\ \E k \in 0..(Len(app) - 1) :
                   /\ Fits(KeepFrom(app, k), contextWindow)
                   /\ \A j \in 0..(k - 1) : ~Fits(KeepFrom(app, j), contextWindow)
                   /\ conversation' = KeepFrom(app, k)]_vars

\* The step is an iteration of a receive loop on an event without a
\* tool-call batch: content, a marker, reasoning text or nothing.
ClassifyStep == RecvStep /\ Len(Head(ch).toolCalls) = 0

\* C30: in every step the conversation keeps its system message and a
\* suffix of its other messages as they were, in their order (the whole of
\* them in the tool agent), followed by the messages appended in the step,
\* each with a role and all of one role; a classification step leaves the
\* conversation as it is.
C30_AppendOrRemoveOldestOnly ==
    [][/\ \E j \in 0..(Len(conversation) - 1) :
             /\ j > 0 => agent = "budget"
             /\ Len(conversation') >= Len(conversation) - j
             /\ SubSeq(conversation', 1, Len(conversation) - j)
                   = KeepFrom(conversation, j)
             /\ LET new == SubSeq(conversation', Len(conversation) - j + 1,
                                  Len(conversation'))
                IN  /\ \A i \in 1..Len(new) :
                          /\ new[i].role \in {"user", "assistant", "tool"}
                          /\ new[i].role = new[1].role
                    /\ agent = "budget" => Len(new) <= 1
       /\ ClassifyStep => conversation' = conversation]_vars

C30_Witness ==
    /\ agent = "budget" /\ last = "end_commit"
    /\ calls = 3 /\ contextWindow = 4
    /\ conversation = <<SystemMessage, Message("user", <<"u">>),
                        Message("assistant", <<"a">>)>>

\* The events received since the last user input, in order: those of the
\* streams that ended and those of the stream being read.
RECURSIVE Concat(_)
Concat(seqs) == IF seqs = <<>> THEN <<>> ELSE Head(seqs) \o Concat(Tail(seqs))

History == Concat(answers) \o recvd

IsBatch(e) == e.choices > 0 /\ Len(e.toolCalls) > 0

IsContent(e) == e.choices > 0 /\ Len(e.toolCalls) = 0 /\ e.content # <<>>

\* The batch received now continues a run: the last batch before it is the
\* same batch and no content delta was received since.
ContinuesRun(batch) ==
    \E i \in 1..Len(History) :
        /\ IsBatch(History[i]) /\ History[i].toolCalls = batch
        /\ \A j \in (i + 1)..Len(History) :
              ~IsBatch(History[j]) /\ ~IsContent(History[j])

\* C31: a batch that continues a run of identical batches invokes no tool,
\* yields exactly the one synthesized FAILED message and leaves the
\* remembered batch as it is; the remembered batch is cleared only by a
\* content delta that is not a marker.
C31_RunOfIdenticalBatches ==
    [][/\ (RecvBatchStep /\ ContinuesRun(Head(ch).toolCalls))
             => /\ called' = <<>>
                /\ files' = files
                /\ conversation' = Append(conversation, DupResponse(Head(ch).toolCalls))
                /\ lastToolCall' = lastToolCall
       /\ (agent = "tool" /\ lastToolCall # <<>> /\ lastToolCall' = <<>>)
             => (RecvStep /\ IsContent(Head(ch)) /\ Head(ch).content \notin Markers)]_vars

-----------------------------------------------------------------------------
(* GoCodeEditor.Call on its own: a file and the arguments are drawn, then  *)
(* the tool is called once.                                                *)

EditorArgs ==
    {[k \in {"path", "line_number", "type_change", "line_change"} |->
        CASE k = "path" -> Str(p)
          [] k = "line_number" -> Num(n)
          [] k = "type_change" -> Str(tc)
          [] k = "line_change" -> Str(lc)] :
     p \in {"a.go", "b.go"}, n \in 0..3,
     tc \in {"add", " replace ", "delete", "move"}, lc \in {"x", "bad"}}

EditorFiles ==
    {[p \in {"a.go", "b.go"} |-> IF p = "a.go" THEN c ELSE NoFile] :
        c \in {<<"package">>, <<"package", "x">>, <<"x">>}}

InitEditor ==
    /\ agent = "editor"
    /\ contextWindow = 0
    /\ pc = "top"
    /\ conversation = <<>>
    /\ reasonContent = <<>>
    /\ chunks = <<>>
    /\ reasonThinking = FALSE
    /\ contentThinking = FALSE
    /\ inToolCall = FALSE
    /\ lastToolCall \in {<<ToolCall("golang_code_editor", a)>> : a \in EditorArgs}
    /\ prevBatch = <<>>
    /\ files \in EditorFiles
    /\ ch = <<>>
    /\ chOpen = FALSE
    /\ sent = 0
    /\ calls = 0
    /\ endReason = "none"
    /\ last = "init"
    /\ called = <<>>
    /\ recvd = <<>>
    /\ answers = <<>>

\* resp := tool.Call(ctx, toolCall.Function.Arguments); io tells whether
\* os.WriteFile succeeds.
Edit(io) ==
    /\ agent = "editor" /\ pc = "top"
    /\ LET r == GoCodeEditorCall(lastToolCall[1].args, files, io) IN
       /\ files' = r.files
       /\ conversation' = <<r.resp>>
       /\ pc' = IF r.panic THEN "panic" ELSE "done"
    /\ last' = IF io THEN "edit_write_ok" ELSE "edit_write_err"
    /\ called' = lastToolCall
    /\ UNCHANGED <<agent, reasonContent, chunks, reasonThinking, contentThinking,
                   inToolCall, lastToolCall, contextWindow, ch, chOpen, sent,
                   calls, endReason, prevBatch, recvd, answers>>

NextEditor == \E io \in BOOLEAN : Edit(io)

SpecEditor == InitEditor /\ [][NextEditor]_vars

\* The FAILED results of the claim: file unreadable, line number out of
\* range, unsupported change type, syntax error after the modification.
EditorFailures ==
    {toolErrorResponse("golang_code_editor", e) :
        e \in {"read error", "line number is out of range",
               "unsupported change type", "syntax error after modification"}}

EditStep == agent = "editor" /\ pc = "top" /\ pc' = "done"

====
